---- MODULE Spec2Model ----
(***************************************************************************)
(* catbox-gun: a catbox cache connector in two variants.                   *)
(*   - the embedded variant keeps its entries in a GUN graph database      *)
(*     instance (this.gun) and expires them with gun/lib/later timers;     *)
(*   - the remote variant talks to a GUN caching service over gRPC         *)
(*     (this.service), every method wrapped in a retry loop.               *)
(* The constructor decides the variant; it never changes afterwards.       *)
(* Strings are TLA+ strings, "" standing for every falsy key field         *)
(* (undefined or the empty string).                                        *)
(***************************************************************************)
EXTENDS Integers, Sequences, FiniteSets, TLC

VARIABLES
    variant,      \* "gun" (embedded) or "grpc" (remote): which module was required
    gun,          \* embedded: this.gun, 0 = null, else the id of a Gun instance
    service,      \* remote: this.service, 0 = null, else the id of a service table
    insts,        \* number of backend resources (Gun instances / services) created
    graph,        \* embedded: graph[path] = the node stored at partition/path
    timers,       \* embedded: armed .later() timers, not fired yet
    now,          \* wall clock, in ms
    pending,      \* embedded: get calls awaiting the .once() callback
    invocations,  \* remote: service method invocations in flight
    ncalls,       \* number of get/set/drop calls made so far
    uncaught,     \* an exception escaped a timer callback
    ret,          \* what the step just taken handed to its caller
    lifecycle,    \* history: the most recent lifecycle call
    lastSet,      \* history: the set that was the latest call, the get that follows
                  \* it at once, and whether an expiry timer has fired since
    sets          \* history: per key, the most recent successful set call, and the
                  \* number of the latest drop call since (0: none)

vars == <<variant, gun, service, insts, graph, timers, now, pending, invocations,
          ncalls, uncaught, ret, lifecycle, lastSet, sets>>

(***************************************************************************)
(* Bounds of the model.                                                    *)
(***************************************************************************)
MaxInst  == 2   \* backend resources created by start()
MaxCalls == 3   \* get/set/drop calls
MaxTime  == 2   \* clock ticks
MaxFlight == 2  \* calls in flight at once

(***************************************************************************)
(* Inputs.                                                                 *)
(***************************************************************************)
\* a key argument: null, or an object whose absent fields read as ""; {} fails
\* the segment assertion and {segment: "a"} the id assertion
NullKey  == [null |-> TRUE, segment |-> "", id |-> ""]
Key(segment, id) == [null |-> FALSE, segment |-> segment, id |-> id]
EmptyKey == Key("", "")
\* Key("a", "b/c") and Key("a/b", "c") are distinct keys of one joined path
KeyArgs  == {NullKey, EmptyKey, Key("a", ""),
             Key("a", "c"), Key("a", "b/c"), Key("a/b", "c")}
\* the remote variant is called with the same keys but for one of the two that
\* share a joined path: its path is a list, which keeps them apart
RemoteKeyArgs == KeyArgs \ {Key("a", "b/c")}
Values   == {"v1", "v2"}
Ttls     == {0, 1}
\* remote set(): item and ttl, each truthy or falsy
SetArgs  == {[item |-> "v1", ttl |-> 1], [item |-> "", ttl |-> 1], [item |-> "v1", ttl |-> 0]}

partition == "catbox"

\* a segment name: absent (undefined, null), or a string given as its sequence of
\* character codes, 0 being the null character and 97 the letter a
MaxLen == 2
NoName == [absent |-> TRUE, chars |-> <<>>]
Name(chars) == [absent |-> FALSE, chars |-> chars]
Names == {NoName} \cup {Name(chars) : chars \in UNION {[1..n -> {0, 97}] : n \in 0..MaxLen}}

(***************************************************************************)
(* Key Codec.                                                              *)
(***************************************************************************)
\* Hoek.assert(!!key.segment); Hoek.assert(!!key.id): what evaluating them throws
KeyFault(key) ==
    IF key.null THEN "TypeError"
    ELSE IF key.segment = "" \/ key.id = "" THEN "AssertionError"
    ELSE "none"

ValidKey(key) == KeyFault(key) = "none"
ValidKeys == {k \in KeyArgs : ValidKey(k)}

generateKey(key) == key.segment \o "/" \o key.id

generatePath(key) == <<partition, key.segment, key.id>>

Paths == {generateKey(k) : k \in ValidKeys}

(***************************************************************************)
(* Envelope Model.                                                         *)
(***************************************************************************)
Undef     == [tag |-> "undefined"]      \* a node never written
Tombstone == [tag |-> "null"]           \* put(null)
NullResult == [tag |-> "null"]
NoValue   == [tag |-> "none"]

createEnvelope(value, ttl) ==
    [tag |-> "env", item |-> value, stored |-> now, ttl |-> ttl]

\* get(): if (!envelope) return null; else copy the three fields
unwrap(envelope) ==
    IF envelope.tag = "env"
        THEN [tag |-> "env", item |-> envelope.item, stored |-> envelope.stored,
              ttl |-> envelope.ttl]
        ELSE NullResult

(***************************************************************************)
(* Errors.                                                                 *)
(***************************************************************************)
NoError == [name |-> "none", statusCode |-> 0, message |-> "", data |-> FALSE]
\* a failed Hoek.assert ("AssertionError") or a property read of null ("TypeError")
Thrown(name) == [name |-> name, statusCode |-> 0, message |-> "", data |-> FALSE]
\* new Boom('Connection not started'): Boom defaults to status 500
NotStarted ==
    [name |-> "Boom", statusCode |-> 500, message |-> "Connection not started",
     data |-> FALSE]

\* new Boom('Empty string'), new Boom('Includes null character')
InvalidSegment(message) ==
    [name |-> "Boom", statusCode |-> 500, message |-> message, data |-> FALSE]

NoArgs == [item |-> "", ttl |-> 0]

\* ret: what this step handed to the caller: a result returned ("ok"), an error
\* thrown ("error"), or nothing (Quiet). started tells whether the call found a
\* handle, issued is the time of the call, io the number of backend operations
\* (read, write, timer, rpc) it issued, code the status code of the transport
\* failure it ended on (0: none), name the argument of validateSegmentName
Event(op, key, args, started, outcome, err, value, io, delays, issued) ==
    [op |-> op, key |-> key, item |-> args.item, ttl |-> args.ttl,
     started |-> started,
     outcome |-> outcome, err |-> err, value |-> value,
     io |-> io, delays |-> delays, issued |-> issued, code |-> 0, name |-> NoName]

Quiet == Event("none", NullKey, NoArgs, FALSE, "none", NoError, NoValue, 0, 0, 0)

NoSet == [ph |-> "none", id |-> 0, key |-> NullKey, item |-> "", fired |-> FALSE]
Never == [has |-> FALSE, positive |-> FALSE, due |-> 0, dropped |-> 0, item |-> ""]

handle == IF variant = "gun" THEN gun ELSE service

Init ==
    /\ variant \in {"gun", "grpc"}
    /\ gun = 0
    /\ service = 0
    /\ insts = 0
    /\ graph = [p \in Paths |-> Undef]
    /\ timers = {}
    /\ now = 0
    /\ pending = {}
    /\ invocations = {}
    /\ ncalls = 0
    /\ uncaught = FALSE
    /\ ret = Quiet
    /\ lifecycle = "new"
    /\ lastSet = NoSet
    /\ sets = [k \in ValidKeys |-> Never]

(***************************************************************************)
(* Lifecycle (both variants).  Gun(settings) and createService(settings)   *)
(* make a new backend resource, numbered in the order of creation; the     *)
(* Gun instances of one connector open the same store (settings.file).     *)
(***************************************************************************)
\* a faulty start(): a new instance on every call
StartHandle_Anew(h) == insts + 1

\* start(): if (!this.gun) this.gun = Gun(settings)   [service = createService(...)]
StartHandle(h) == IF h = 0 THEN insts + 1 ELSE h

start ==
    /\ StartHandle(handle) <= MaxInst
    /\ IF variant = "gun"
          THEN gun' = StartHandle(gun) /\ UNCHANGED service
          ELSE service' = StartHandle(service) /\ UNCHANGED gun
    /\ insts' = IF StartHandle(handle) = handle THEN insts ELSE insts + 1
    /\ lifecycle' = "start"
    /\ lastSet' = NoSet
    /\ ret' = Event("start", NullKey, NoArgs, handle # 0, "ok", NoError, NoValue, 0, 0, now)
    /\ UNCHANGED <<variant, graph, timers, now, pending, invocations, ncalls,
                   uncaught, sets>>

\* a faulty stop(): the handle is kept
StopHandle_Keep(h) == h

\* stop(): this.gun = null   [this.service = null]
StopHandle(h) == 0

stop ==
    /\ IF variant = "gun"
          THEN gun' = StopHandle(gun) /\ UNCHANGED service
          ELSE service' = StopHandle(service) /\ UNCHANGED gun
    /\ lifecycle' = "stop"
    /\ lastSet' = NoSet
    /\ ret' = Event("stop", NullKey, NoArgs, handle # 0, "ok", NoError, NoValue, 0, 0, now)
    /\ UNCHANGED <<variant, insts, graph, timers, now, pending, invocations, ncalls,
                   uncaught, sets>>

\* isReady(): return !!this.gun   [!!this.service]
isReady == handle # 0

(***************************************************************************)
(* Embedded variant: get / set / drop.                                     *)
(***************************************************************************)
\* a faulty get() and set(): no started check
GetPrecheck_NoStartedCheck(key, h) ==
    IF KeyFault(key) # "none" THEN Thrown(KeyFault(key))
    ELSE IF partition = "" THEN Thrown("AssertionError")
    ELSE NoError

\* a faulty drop(): the key is used as it comes
DropPrecheck_NoKeyCheck(key, h) ==
    IF h = 0 THEN NotStarted
    ELSE IF partition = "" THEN Thrown("AssertionError")
    ELSE NoError

\* get() and set(): the key assertions, then the started check, then the
\* partition assertion; NoError when the call goes on to the backend
GetPrecheck(key, h) ==
    IF KeyFault(key) # "none" THEN Thrown(KeyFault(key))
    ELSE IF h = 0 THEN NotStarted
    ELSE IF partition = "" THEN Thrown("AssertionError")
    ELSE NoError

\* drop(): the started check, then the partition assertion, then generateKey's
\* assertions while the argument of .get() is evaluated
DropPrecheck(key, h) ==
    IF h = 0 THEN NotStarted
    ELSE IF partition = "" THEN Thrown("AssertionError")
    ELSE IF KeyFault(key) # "none" THEN Thrown(KeyFault(key))
    ELSE NoError

\* a call that throws before it reaches the backend
Throw(op, key, args, err) ==
    /\ ret' = Event(op, key, args, handle # 0, "error", err, NoValue, 0, 0, now)
    /\ ncalls' = ncalls + 1
    /\ lastSet' = NoSet
    /\ UNCHANGED <<variant, gun, service, insts, graph, timers, now, pending,
                   invocations, uncaught, lifecycle, sets>>

CanCall == ncalls < MaxCalls
CanFly == Cardinality(pending) + Cardinality(invocations) < MaxFlight

GunGet(key) ==
    /\ variant = "gun"
    /\ CanCall
    /\ LET err == GetPrecheck(key, gun) IN
       IF err # NoError THEN Throw("get", key, NoArgs, err)
       ELSE /\ CanFly
            \* self.gun.get(partition).get(id).once(resolve)
            /\ pending' = pending \cup
                 {[id |-> ncalls + 1, key |-> key, k |-> generateKey(key),
                   started |-> gun # 0, issued |-> now]}
            /\ ncalls' = ncalls + 1
            /\ lastSet' = IF lastSet.ph = "set" /\ lastSet.key = key
                             THEN [lastSet EXCEPT !.ph = "get", !.id = ncalls + 1]
                             ELSE NoSet
            /\ ret' = Quiet
            /\ UNCHANGED <<variant, gun, service, insts, graph, timers, now,
                           invocations, uncaught, lifecycle, sets>>

\* .once() calls back with the node as it is when the callback runs
GunGetResolve(p) ==
    /\ pending' = pending \ {p}
    /\ ret' = Event("get", p.key, NoArgs, p.started, "ok", NoError, unwrap(graph[p.k]),
                    1, 0, p.issued)
    /\ lastSet' = IF lastSet.ph = "get" /\ lastSet.id = p.id
                     THEN [lastSet EXCEPT !.ph = "got"]
                     ELSE NoSet
    /\ UNCHANGED <<variant, gun, service, insts, graph, timers, now, invocations,
                   ncalls, uncaught, lifecycle, sets>>

\* a faulty embedded set(): ttl asserted, as the remote set() does
EnvelopePrecheck_TtlAsserted(key, value, ttl, h) ==
    IF KeyFault(key) # "none" THEN Thrown(KeyFault(key))
    ELSE IF ttl = 0 THEN Thrown("AssertionError")
    ELSE IF h = 0 THEN NotStarted
    ELSE NoError

\* embedded set(): the key assertions, the started check, then
\* Hoek.assert(!!envelope) on the object createEnvelope returns (truthy whatever
\* value and ttl are) and the partition assertion
EnvelopePrecheck(key, value, ttl, h) ==
    IF GetPrecheck(key, h) # NoError THEN GetPrecheck(key, h)
    ELSE IF createEnvelope(value, ttl).tag # "env" THEN Thrown("AssertionError")
    ELSE NoError

\* .later(cb, ttl / 1000): a one-shot timer, ttl ms from now
TimerDue(ttl) == now + (IF ttl > 0 THEN ttl ELSE 0)

\* set(): put(envelope, ack) writes the node and .later() arms the timer before
\* set() suspends; the acknowledgement that resolves its promise changes nothing
\* and depends on nothing that happens meanwhile, so the promise resolves here
GunSet(key, value, ttl) ==
    /\ variant = "gun"
    /\ CanCall
    /\ LET err == EnvelopePrecheck(key, value, ttl, gun)
           k == generateKey(key) IN
       IF err # NoError THEN Throw("set", key, NoArgs, err)
       ELSE /\ TimerDue(ttl) <= MaxTime
            /\ graph' = [graph EXCEPT ![k] = createEnvelope(value, ttl)]
            /\ timers' = timers \cup {[k |-> k, due |-> TimerDue(ttl)]}
            /\ ncalls' = ncalls + 1
            /\ ret' = Event("set", key, [item |-> value, ttl |-> ttl], gun # 0, "ok",
                            NoError, NoValue, 2, 0, now)
            /\ lastSet' = IF ttl > 0
                             THEN [ph |-> "set", id |-> 0, key |-> key, item |-> value,
                                   fired |-> FALSE]
                             ELSE NoSet
            /\ sets' = [sets EXCEPT ![key] =
                          [has |-> TRUE, positive |-> ttl > 0,
                           due |-> IF ttl > 0 THEN now + ttl ELSE 0, dropped |-> 0,
                           item |-> value]]
            /\ UNCHANGED <<variant, gun, service, insts, now, pending, invocations,
                           uncaught, lifecycle>>

GunDrop(key) ==
    /\ variant = "gun"
    /\ CanCall
    /\ LET err == DropPrecheck(key, gun) IN
       IF err # NoError THEN Throw("drop", key, NoArgs, err)
       ELSE \* self.gun.get(partition).get(self.generateKey(key)).put(null)
            /\ graph' = [graph EXCEPT ![generateKey(key)] = Tombstone]
            /\ ncalls' = ncalls + 1
            /\ ret' = Event("drop", key, NoArgs, gun # 0, "ok", NoError, NoValue, 1, 0,
                            now)
            /\ lastSet' = NoSet
            /\ sets' = [sets EXCEPT ![key].dropped = ncalls + 1]
            /\ UNCHANGED <<variant, gun, service, insts, timers, now, pending,
                           invocations, uncaught, lifecycle>>

\* the .later() callback: self.gun.get(partition).get(k).put(null), self.gun
\* read when the timer fires; on a stopped connector the read of null.get throws
TimerFire(t) ==
    /\ t.due <= now
    /\ timers' = timers \ {t}
    /\ IF gun = 0
          THEN uncaught' = TRUE /\ UNCHANGED graph
          ELSE /\ graph' = [graph EXCEPT ![t.k] = Tombstone]
               /\ UNCHANGED uncaught
    /\ ret' = Quiet
    /\ lastSet' = IF lastSet.ph = "none" THEN lastSet ELSE [lastSet EXCEPT !.fired = TRUE]
    /\ UNCHANGED <<variant, gun, service, insts, now, pending, invocations, ncalls,
                   lifecycle, sets>>

\* time passes; a timer that is due fires before the clock moves on
Tick ==
    /\ variant = "gun"
    /\ now < MaxTime
    /\ \A t \in timers : t.due > now
    /\ now' = now + 1
    /\ ret' = Quiet
    /\ lastSet' = NoSet
    /\ UNCHANGED <<variant, gun, service, insts, graph, timers, pending, invocations,
                   ncalls, uncaught, lifecycle, sets>>

GunNext ==
    \/ \E key \in KeyArgs : GunGet(key)
    \/ \E p \in pending : GunGetResolve(p)
    \/ \E key \in KeyArgs, value \in Values, ttl \in Ttls : GunSet(key, value, ttl)
    \/ \E key \in KeyArgs : GunDrop(key)
    \/ \E t \in timers : TimerFire(t)
    \/ Tick

(***************************************************************************)
(* Remote variant: the retry wrapper createService puts around every       *)
(* method of the gRPC client.                                              *)
(***************************************************************************)
INVALID_ARGUMENT == 3     \* the key of badRequestError in GRPC_CODE2ERROR_TYPE
NOT_FOUND == 5            \* the key of notFoundError in GRPC_CODE2ERROR_TYPE
UNAVAILABLE == 14         \* Grpc.status.UNAVAILABLE
\* the status codes a failed call carries: the three above, and INTERNAL (13)
\* for every code the table has no entry for
ErrorCodes == {INVALID_ARGUMENT, NOT_FOUND, UNAVAILABLE, 13}

ATTEMPTS == 3             \* while (attempts < 3)

badRequestError == [name |-> "badRequest", statusCode |-> 400]
notFoundError == [name |-> "notFound", statusCode |-> 404]
badImplementationError == [name |-> "badImplementation", statusCode |-> 500]

\* GRPC_CODE2ERROR_TYPE[error.code] || badImplementationError
GRPC_CODE2ERROR_TYPE(code) ==
    IF code = INVALID_ARGUMENT THEN badRequestError
    ELSE IF code = NOT_FOUND THEN notFoundError
    ELSE badImplementationError

\* what the transport reports when a call fails
\* details blank or not, metadata absent, empty or with entries
Shapes == {[details |-> "", metadata |-> "absent"],
           [details |-> "no entry at path", metadata |-> "empty"],
           [details |-> "no entry at path", metadata |-> "full"]}
TransportError_(code, shape) ==
    [code |-> code, details |-> shape.details, message |-> "rpc failed",
     metadata |-> shape.metadata]
TransportErrors ==
    {TransportError_(code, shape) : code \in ErrorCodes \ {UNAVAILABLE}, shape \in Shapes}
    \cup {TransportError_(UNAVAILABLE, [details |-> "", metadata |-> "absent"])}

\* the catch block's else branch: the typed error thrown for a transport error
Translate(error) ==
    LET errorType == GRPC_CODE2ERROR_TYPE(error.code) IN
    [name |-> errorType.name, statusCode |-> errorType.statusCode,
     message |-> IF error.details # "" THEN error.details ELSE error.message,
     data |-> error.metadata = "full"]

CouldNotConnect ==
    [name |-> badImplementationError.name,
     statusCode |-> badImplementationError.statusCode,
     message |-> "Couldn't connect to GUN caching service", data |-> FALSE]

\* a faulty catch block: every failure is retried
Retried_Any(error) == error.code # 0

\* catch (error): is the failure retried?
Retried(error) == error.code = UNAVAILABLE

\* faulty loop conditions: one attempt too many, one too few
LoopsAgain_Inclusive(attempts) == attempts <= ATTEMPTS
LoopsAgain_Short(attempts) == attempts < ATTEMPTS - 1

\* the loop condition, evaluated after a delay
LoopsAgain(attempts) == attempts < ATTEMPTS

\* Entry as the wire delivers it: uint64 fields as decimal digit strings
Digit == [c \in {"0", "1", "2", "3", "4", "5", "6", "7", "8", "9"} |->
            CASE c = "0" -> 0 [] c = "1" -> 1 [] c = "2" -> 2 [] c = "3" -> 3
              [] c = "4" -> 4 [] c = "5" -> 5 [] c = "6" -> 6 [] c = "7" -> 7
              [] c = "8" -> 8 [] c = "9" -> 9]
RECURSIVE Number(_)
Number(digits) ==
    IF digits = <<>> THEN 0
    ELSE 10 * Number(SubSeq(digits, 1, Len(digits) - 1)) + Digit[digits[Len(digits)]]

Entries == {[item |-> "v1", ttl |-> <<"1", "0">>, stored |-> <<"7">>]}

\* get(): result.ttl = Number(result.ttl); result.stored = Number(result.stored)
Normalize(entry) ==
    [tag |-> "env", item |-> entry.item, stored |-> Number(entry.stored),
     ttl |-> Number(entry.ttl)]

\* a faulty remote set(): item and ttl go unchecked
SetPrecheck_NoArgAsserts(key, item, ttl, h) ==
    IF KeyFault(key) # "none" THEN Thrown(KeyFault(key))
    ELSE IF h = 0 THEN NotStarted
    ELSE NoError

\* set(): the key assertions, the item and ttl assertions, then the started check
SetPrecheck(key, item, ttl, h) ==
    IF KeyFault(key) # "none" THEN Thrown(KeyFault(key))
    ELSE IF item = "" THEN Thrown("AssertionError")
    ELSE IF ttl = 0 THEN Thrown("AssertionError")
    ELSE IF h = 0 THEN NotStarted
    ELSE IF partition = "" THEN Thrown("AssertionError")
    ELSE NoError

\* await self.service[method](message): the wrapper starts with attempts = 0
Invoke(op, method, key, args) ==
    /\ CanFly
    /\ invocations' = invocations \cup
         {[id |-> ncalls + 1, op |-> op, method |-> method, key |-> key,
           path |-> generatePath(key), item |-> args.item, ttl |-> args.ttl,
           started |-> service # 0, attempts |-> 0, calls |-> 0, delays |-> 0,
           error |-> 0, pc |-> "call"]}
    /\ ncalls' = ncalls + 1
    /\ ret' = Quiet
    /\ lastSet' = NoSet
    /\ UNCHANGED <<variant, gun, service, insts, graph, timers, now, pending,
                   uncaught, lifecycle, sets>>

GrpcGet(key) ==
    /\ variant = "grpc"
    /\ CanCall
    /\ LET err == GetPrecheck(key, service) IN
       IF err # NoError THEN Throw("get", key, NoArgs, err)
       ELSE Invoke("get", "getEntry", key, NoArgs)

GrpcSet(key, item, ttl) ==
    /\ variant = "grpc"
    /\ CanCall
    /\ LET err == SetPrecheck(key, item, ttl, service)
           args == [item |-> item, ttl |-> ttl] IN
       IF err # NoError THEN Throw("set", key, args, err)
       ELSE Invoke("set", "setEntry", key, args)

GrpcDrop(key) ==
    /\ variant = "grpc"
    /\ CanCall
    /\ LET err == DropPrecheck(key, service) IN
       IF err # NoError THEN Throw("drop", key, NoArgs, err)
       ELSE Invoke("drop", "deleteEntry", key, NoArgs)

Finish(v, outcome, err, value, calls, code) ==
    /\ invocations' = invocations \ {v}
    /\ ret' = [Event(v.op, v.key, [item |-> v.item, ttl |-> v.ttl], v.started,
                     outcome, err, value, calls, v.delays, 0)
                 EXCEPT !.code = code]
    /\ lastSet' = NoSet
    /\ UNCHANGED <<variant, gun, service, insts, graph, timers, now, pending,
                   ncalls, uncaught, lifecycle, sets>>

\* return await promisifiedMethod(message): the transport call succeeds
TransportReply(v, entry) ==
    /\ v.pc = "call"
    /\ Finish(v, "ok", NoError,
              IF v.method = "getEntry" THEN Normalize(entry) ELSE NoValue,
              v.calls + 1, 0)

\* a faulty wrapper: one attempts counter shared by all the calls in flight
TransportError_SharedCount(v, error) ==
    /\ v.pc = "call"
    /\ IF Retried(error)
          THEN /\ invocations' =
                    {[w EXCEPT !.attempts = w.attempts + 1] : w \in invocations \ {v}}
                    \cup {[v EXCEPT !.attempts = v.attempts + 1, !.calls = v.calls + 1,
                                    !.delays = v.delays + 1, !.error = error.code,
                                    !.pc = "delay"]}
               /\ ret' = Quiet
               /\ lastSet' = NoSet
               /\ UNCHANGED <<variant, gun, service, insts, graph, timers, now,
                              pending, ncalls, uncaught, lifecycle, sets>>
          ELSE Finish(v, "error", Translate(error), NoValue, v.calls + 1, error.code)

\* catch (error): retry after a delay, or translate and throw; error is the
\* caught error's code while the catch block runs
TransportError(v, error) ==
    /\ v.pc = "call"
    /\ IF Retried(error)
          THEN /\ invocations' = (invocations \ {v}) \cup
                    {[v EXCEPT !.attempts = v.attempts + 1, !.calls = v.calls + 1,
                               !.delays = v.delays + 1, !.error = error.code,
                               !.pc = "delay"]}
               /\ ret' = Quiet
               /\ lastSet' = NoSet
               /\ UNCHANGED <<variant, gun, service, insts, graph, timers, now,
                              pending, ncalls, uncaught, lifecycle, sets>>
          ELSE Finish(v, "error", Translate(error), NoValue, v.calls + 1, error.code)

\* Promise.delay(INTERVAL) is over: the loop condition is evaluated again
DelayElapsed(v) ==
    /\ v.pc = "delay"
    /\ IF LoopsAgain(v.attempts)
          THEN /\ invocations' = (invocations \ {v}) \cup
                    {[v EXCEPT !.error = 0, !.pc = "call"]}
               /\ ret' = Quiet
               /\ lastSet' = NoSet
               /\ UNCHANGED <<variant, gun, service, insts, graph, timers, now,
                              pending, ncalls, uncaught, lifecycle, sets>>
          ELSE Finish(v, "error", CouldNotConnect, NoValue, v.calls, v.error)

GrpcNext ==
    \/ \E key \in RemoteKeyArgs : GrpcGet(key)
    \/ \E key \in RemoteKeyArgs, args \in SetArgs : GrpcSet(key, args.item, args.ttl)
    \/ \E key \in RemoteKeyArgs : GrpcDrop(key)
    \/ \E v \in invocations, entry \in Entries : TransportReply(v, entry)
    \/ \E v \in invocations, error \in TransportErrors : TransportError(v, error)
    \/ \E v \in invocations : DelayElapsed(v)

(***************************************************************************)
(* The operations that need no backend: validateSegmentName and the key     *)
(* codec (generateKey of the embedded variant, generatePath of the remote).  *)
(***************************************************************************)
\* name.indexOf(c): the first position of c, counted from 0, or -1
indexOf(chars, c) ==
    IF \E i \in 1..Len(chars) : chars[i] = c
       THEN (CHOOSE i \in 1..Len(chars) :
                chars[i] = c /\ \A j \in 1..(i - 1) : chars[j] # c) - 1
       ELSE -1

\* a faulty validateSegmentName: the null character passes
SegmentFault_NoNullCheck(name) ==
    IF name.absent \/ name.chars = <<>> THEN "Empty string" ELSE ""

\* the message validateSegmentName throws for name, "" when it returns null
SegmentFault(name) ==
    IF name.absent \/ name.chars = <<>> THEN "Empty string"
    ELSE IF indexOf(name.chars, 0) # -1 THEN "Includes null character"
    ELSE ""

validateSegmentName(name) ==
    /\ ret' = [Event("validateSegmentName", NullKey, NoArgs, handle # 0,
                     IF SegmentFault(name) = "" THEN "ok" ELSE "error",
                     IF SegmentFault(name) = "" THEN NoError
                        ELSE InvalidSegment(SegmentFault(name)),
                     IF SegmentFault(name) = "" THEN NullResult ELSE NoValue,
                     0, 0, now)
                 EXCEPT !.name = name]
    /\ lastSet' = NoSet
    /\ UNCHANGED <<variant, gun, service, insts, graph, timers, now, pending,
                   invocations, ncalls, uncaught, lifecycle, sets>>

\* the derived path of key: generateKey(key) or generatePath(settings, key)
Path(key) == IF variant = "gun" THEN generateKey(key) ELSE generatePath(key)

\* a call of the key codec alone; both forms assert the key's fields
KeyCodec(key) ==
    /\ ret' = Event("generateKey", key, NoArgs, handle # 0,
                    IF KeyFault(key) = "none" THEN "ok" ELSE "error",
                    IF KeyFault(key) = "none" THEN NoError ELSE Thrown(KeyFault(key)),
                    IF KeyFault(key) = "none" THEN [tag |-> "path", path |-> Path(key)]
                       ELSE NoValue,
                    0, 0, now)
    /\ lastSet' = NoSet
    /\ UNCHANGED <<variant, gun, service, insts, graph, timers, now, pending,
                   invocations, ncalls, uncaught, lifecycle, sets>>

PureNext ==
    \/ start
    \/ stop
    \/ \E name \in Names : validateSegmentName(name)
    \/ \E key \in KeyArgs : KeyCodec(key)
    \/ \E key \in KeyArgs : GunDrop(key)

PureSpec == Init /\ [][PureNext]_vars

Next ==
    \/ start
    \/ stop
    \/ GunNext
    \/ GrpcNext

Spec == Init /\ [][Next]_vars

(***************************************************************************)
(* Properties.                                                             *)
(***************************************************************************)
DataOps == {"get", "set", "drop"}
InvalidKey == {Thrown("AssertionError"), Thrown("TypeError")}
\* the connector was started once and has not been stopped since
StayedStarted == gun # 0 /\ insts = 1
\* the step issued no backend operation
NoBackendIO == ret'.io = 0 /\ UNCHANGED <<graph, timers, pending, invocations>>

\* C1: embedded variant, Started connector: a get(k) that follows a
\* set(k, v, ttl) with ttl > 0 at once (no connector operation in between and
\* no time passing, whatever happened before) returns a non-null result whose
\* item is v.
C1_GetAfterSet ==
    (lastSet.ph = "got" /\ ret.op = "get") =>
        /\ ret.outcome = "ok"
        /\ ret.value.tag = "env"
        /\ ret.value.item = lastSet.item

\* C2: embedded variant, connector that stays Started: after set(k, v, ttl) with
\* ttl > 0, a get(k) issued once the TTL window has elapsed, with no later set
\* on k, returns null.
C2_ExpiredGetIsNull ==
    (/\ variant = "gun" /\ ret.op = "get" /\ ret.outcome = "ok" /\ ValidKey(ret.key)
     /\ StayedStarted
     /\ sets[ret.key].positive /\ ret.issued > sets[ret.key].due)
    => ret.value = NullResult

\* C3: embedded variant, Started connector: get(k) before any set on k returns
\* null, and drop(k) with a valid key succeeds without error.
C3_MissBeforeSet ==
    /\ (/\ variant = "gun" /\ ret.op = "get" /\ ret.outcome = "ok"
        /\ ValidKey(ret.key) /\ ~sets[ret.key].has)
       => ret.value = NullResult
    /\ (variant = "gun" /\ ret.op = "drop" /\ ret.started /\ ValidKey(ret.key))
       => ret.outcome = "ok"

\* a remote set() whose item or ttl is falsy
FalsySet(e) == variant = "grpc" /\ e.op = "set" /\ (e.item = "" \/ e.ttl = 0)

\* C4 as claimed: in both variants get, set and drop called with a valid key on a
\* Stopped connector fail with NotStarted, issue no backend operation and leave
\* the handle null and the stored data unchanged.
C4_StoppedFailsNotStarted ==
    [][(ret'.op \in DataOps /\ ~ret'.started /\ ValidKey(ret'.key)) =>
          /\ ret'.outcome = "error" /\ ret'.err = NotStarted
          /\ NoBackendIO
          /\ handle = 0 /\ handle' = 0]_vars

\* C4 amended: the same, except that the remote variant's set() called with a
\* falsy item or ttl fails its own assertion first; it too issues no backend
\* operation and leaves the handle null.
C4_StoppedFailsNotStartedOrAssertion ==
    [][(ret'.op \in DataOps /\ ~ret'.started /\ ValidKey(ret'.key)) =>
          /\ ret'.outcome = "error"
          /\ ret'.err = IF FalsySet(ret') THEN Thrown("AssertionError") ELSE NotStarted
          /\ NoBackendIO
          /\ handle = 0 /\ handle' = 0]_vars

C4_Witness ==
    /\ ret.op \in DataOps /\ ~ret.started /\ ValidKey(ret.key)
    /\ ret.err = NotStarted /\ insts > 0

C6_StartIdempotent ==
    [][(ret'.op = "start" /\ ret'.started) =>
          /\ ret'.outcome = "ok"
          /\ isReady'
          /\ handle' = handle
          /\ insts' = insts]_vars

C6_Witness == ret.op = "start" /\ ret.started /\ isReady

\* C7: a new connector is Stopped; isReady() is true exactly when the handle is
\* non-null, which is exactly when the most recent lifecycle call was start();
\* stop() always leads to Stopped; no other step changes the handle.
C7_LifecycleState ==
    /\ handle = 0 /\ lifecycle = "new"
    /\ [][/\ isReady' <=> (lifecycle' = "start")
          /\ ret'.op = "stop" => ~isReady'
          /\ ret'.op \notin {"start", "stop"} =>
                (handle' = handle /\ lifecycle' = lifecycle)]_vars

C7_Witness == lifecycle = "stop" /\ ~isReady /\ insts >= 2 /\ ncalls >= 1

\* C8: an invocation whose three attempts all fail with "service unavailable"
\* has made exactly 3 transport calls, never makes a fourth, and fails with an
\* InternalError (status 500) that says the caching service could not be reached.
C8_GivesUpAfterThree ==
    [][\A v \in invocations :
          /\ v.calls <= 3
          /\ v.attempts = 3 =>
               \/ v \in invocations'
               \/ /\ ret'.outcome = "error"
                  /\ ret'.err.name = "badImplementation"
                  /\ ret'.err.statusCode = 500
                  /\ ret'.err.message = "Couldn't connect to GUN caching service"
                  /\ ret'.io = 3
                  /\ \A w \in invocations' : w.id # v.id]_vars

C8_Witness ==
    /\ ret.outcome = "error" /\ ret.err = CouldNotConnect /\ ret.io = 3

\* C9: after one or two attempts that failed with "service unavailable" the
\* invocation attempts again, and when that attempt succeeds the caller gets
\* its response and no error.
C9_RetryThenSuccess ==
    [][\A v \in invocations :
          /\ (v.pc = "delay" /\ v.attempts \in {1, 2} /\ v \notin invocations') =>
                [v EXCEPT !.error = 0, !.pc = "call"] \in invocations'
          /\ \A entry \in Entries :
                (v.attempts \in {1, 2} /\ TransportReply(v, entry)) =>
                   /\ ret'.outcome = "ok" /\ ret'.err = NoError
                   /\ ret'.value = IF v.method = "getEntry"
                                      THEN [tag |-> "env", item |-> entry.item,
                                            stored |-> 7, ttl |-> 10]
                                      ELSE NoValue
                   /\ ret'.io = v.attempts + 1]_vars

C9_Witness ==
    /\ variant = "grpc" /\ ret.op = "get" /\ ret.outcome = "ok"
    /\ ret.delays = 2 /\ ret.io = 3

\* C10: a transport failure whose code is not "service unavailable" is never
\* retried: no delay and no further attempt follows it, and on whichever attempt
\* it occurs the invocation ends with BadRequest (400) for invalid-argument,
\* NotFound (404) for not-found and InternalError (500) for every other code.
C10_OtherErrorsNotRetried ==
    /\ \A v \in invocations : v.pc = "delay" => v.error = 14
    /\ (ret.outcome = "error" /\ ret.code \notin {0, 14}) =>
          /\ ret.err.name = CASE ret.code = 3 -> "badRequest"
                              [] ret.code = 5 -> "notFound"
                              [] OTHER -> "badImplementation"
          /\ ret.err.statusCode = CASE ret.code = 3 -> 400
                                    [] ret.code = 5 -> 404
                                    [] OTHER -> 500
          /\ ret.io = ret.delays + 1

C10_Witness ==
    /\ ret.outcome = "error" /\ ret.code = 5 /\ ret.err.statusCode = 404
    /\ ret.delays = 2

\* C11: embedded variant, Started connector: set(k, v, ttl) with a valid key and
\* a non-positive ttl completes without raising or rejecting.
C11_NonPositiveTtlAccepted ==
    (/\ variant = "gun" /\ ret.op = "set" /\ ret.started
     /\ ValidKey(ret.key) /\ ret.ttl <= 0)
    => (ret.outcome = "ok" /\ ret.err = NoError)

C11_Witness ==
    /\ variant = "gun" /\ ret.op = "set" /\ ret.outcome = "ok" /\ ret.ttl = 0
    /\ ValidKey(ret.key) /\ gun # 0

\* C12: embedded variant: a set(k, v, ttl) with ttl <= 0 stores nothing: the
\* backend never holds an envelope written by such a call, and no get returns
\* one.
C12_NonPositiveTtlStoresNothing ==
    variant = "gun" =>
        /\ \A path \in Paths : graph[path].tag = "env" => graph[path].ttl > 0
        /\ (ret.op = "get" /\ ret.value.tag = "env") => ret.value.ttl > 0

\* C13: validateSegmentName(name) fails with InvalidSegment exactly when name is
\* empty or absent or contains the null character, with the message "Empty
\* string" in the empty case; for every other name it returns no value; it
\* changes neither the lifecycle state nor the stored data, Started or Stopped.
C13_ValidateSegmentName ==
    [][ret'.op = "validateSegmentName" =>
          LET name == ret'.name
              empty == name.absent \/ Len(name.chars) = 0
              hasNull == \E i \in 1..Len(name.chars) : name.chars[i] = 0
          IN /\ (ret'.outcome = "error") <=> (empty \/ hasNull)
             /\ ret'.outcome = "error" =>
                   (ret'.err.name = "Boom" /\ ret'.err.statusCode = 500)
             /\ empty => ret'.err.message = "Empty string"
             /\ ret'.outcome # "error" =>
                   (ret'.outcome = "ok" /\ ret'.err = NoError /\ ret'.value = NullResult)
             /\ UNCHANGED <<gun, service, lifecycle, insts, graph, timers>>]_vars

C13_Witness ==
    /\ ret.op = "validateSegmentName" /\ ~ret.started /\ insts > 0
    /\ ret.name = Name(<<97, 0>>) /\ ret.err.message = "Includes null character"
    /\ \E path \in Paths : graph[path] = Tombstone

\* C14: the key codec is deterministic and injective in both forms: two calls
\* yield the same path exactly when they are given the same key.
C14_CodecInjective ==
    [][(/\ ret.op = "generateKey" /\ ret.outcome = "ok"
        /\ ret'.op = "generateKey" /\ ret'.outcome = "ok")
       => ((ret.key = ret'.key) <=> (ret.value.path = ret'.value.path))]_vars

\* C15: remote variant: set() with a falsy item or a falsy ttl fails its local
\* validation and sends nothing; every setEntry invocation stems from a set()
\* with truthy item and ttl on a Started connector, is the only invocation of
\* its call and carries the path [partition, segment, id]; and such a set()
\* does reach the transport.
C15_SetValidatedBeforeSending ==
    variant = "grpc" =>
        /\ (ret.op = "set" /\ (ret.item = "" \/ ret.ttl = 0)) =>
              (ret.outcome = "error" /\ ret.err \in InvalidKey /\ ret.io = 0)
        /\ \A v \in invocations :
              v.method = "setEntry" =>
                 /\ v.op = "set" /\ v.started
                 /\ v.item # "" /\ v.ttl # 0
                 /\ v.path = <<"catbox", v.key.segment, v.key.id>>
                 /\ \A w \in invocations : w.id = v.id => w = v
        /\ (/\ ret.op = "set" /\ ret.started /\ ValidKey(ret.key)
            /\ ret.item # "" /\ ret.ttl # 0) => ret.io >= 1

C15_Witness ==
    /\ \E v \in invocations :
          v.method = "setEntry" /\ v.path = <<"catbox", "a/b", "c">> /\ v.calls = 1
    /\ ret.op = "set" /\ ret.item = "" /\ ret.started /\ ret.outcome = "error"

\* C16: embedded variant: an expiry timer armed by set(k, v, ttl > 0) outlives
\* stop(): whenever it fires, after a stop() too, it writes its tombstone
\* without fault.
C16_TimerSurvivesStop ==
    [][\A t \in timers :
          t \notin timers' => (graph'[t.k] = Tombstone /\ ~uncaught')]_vars

\* C17: the retry delay occurs only between attempts: an invocation that ends
\* on attempt n, with a response or an error, has waited n - 1 delays; one that
\* exhausts its 3 attempts has waited 2.
C17_DelaysBetweenAttempts ==
    (variant = "grpc" /\ ret.op \in DataOps /\ ret.io >= 1) =>
        ret.delays = ret.io - 1

\* C18: concurrent invocations are independent: a step of one invocation (a
\* transport call, a delay, its start or its end) leaves every other invocation
\* in flight as it is, its attempt count included, and an invocation's attempt
\* count is the number of its own failed transport calls.
C18_InvocationsIndependent ==
    [][/\ \A v, w \in invocations :
             (v # w /\ w \notin invocations') => v \in invocations'
       /\ (\E u \in invocations' : \A x \in invocations : x.id # u.id) =>
             invocations \subseteq invocations'
       /\ \A v \in invocations' : v.attempts = v.calls /\ v.attempts <= 3]_vars

\* an invocation completes on its first attempt while the first call made,
\* another invocation, is suspended in the delay after its second failure
C18_Witness ==
    /\ \E v \in invocations : v.id = 1 /\ v.pc = "delay" /\ v.attempts = 2
    /\ ret.op = "get" /\ ret.outcome = "ok" /\ ret.io = 1 /\ ret.delays = 0

\* C19: embedded variant: for valid keys k1 # k2, a set(k1, ...), a drop(k1) and
\* the firing of the expiry timer armed by the latest set on k1 leave the node
\* stored for k2 as it is.
C19_KeysIndependent ==
    [][\A k1, k2 \in ValidKeys :
          (/\ variant = "gun" /\ k1 # k2
           /\ \/ ret'.op \in {"set", "drop"} /\ ret'.outcome = "ok" /\ ret'.key = k1
              \/ \E t \in timers \ timers' :
                    /\ t.k = generateKey(k1)
                    /\ sets[k1].positive /\ sets[k1].due = t.due)
          => graph'[generateKey(k2)] = graph[generateKey(k2)]]_vars

\* C20: embedded variant, Started connector: after drop(k) with a valid key,
\* every get(k) called after the drop returns null as long as no set(k, ...)
\* has followed the drop, whatever expiry timer fires meanwhile.
C20_DroppedStaysNull ==
    [][\A p \in pending \ pending' :
          (/\ variant = "gun" /\ p.started
           /\ sets[p.key].dropped > 0 /\ p.id > sets[p.key].dropped)
          => (ret'.op = "get" /\ ret'.value = NullResult)]_vars

\* the latest set on k had a positive ttl that has not elapsed yet, and no
\* drop(k) has been called since
Fresh(k) ==
    /\ variant = "gun"
    /\ sets[k].has /\ sets[k].positive /\ sets[k].dropped = 0
    /\ now < sets[k].due

\* C21: embedded variant: the value written by the most recent
\* set(k, v, ttl > 0) stays readable until that set's own expiry timer fires
\* or drop(k) is called: until then the node of k holds the envelope of v, and
\* a get(k) that completes returns item v; in particular no expiry timer armed
\* by an earlier set on k removes the entry before its own ttl has elapsed.
C21_LatestSetStaysReadable ==
    /\ \A k \in ValidKeys :
          Fresh(k) => /\ graph[generateKey(k)].tag = "env"
                      /\ graph[generateKey(k)].item = sets[k].item
    /\ (/\ ret.op = "get" /\ ret.outcome = "ok" /\ ValidKey(ret.key)
        /\ Fresh(ret.key))
       => (ret.value.tag = "env" /\ ret.value.item = sets[ret.key].item)

\* get, set or drop has just failed on a Stopped connector with an invalid key
StoppedInvalidCall ==
    ret.op \in DataOps /\ ~ret.started /\ ~ValidKey(ret.key)

\* the condition kind of an error
Kind(err) ==
    IF err \in InvalidKey THEN "InvalidKey"
    ELSE IF err = NotStarted THEN "NotStarted"
    ELSE "other"

\* C22: both variants: key validation and the started check come in the same
\* order in get, set and drop: called on a Stopped connector with an invalid
\* key, the three operations fail with the same kind of condition (all with
\* InvalidKey or all with NotStarted), and none issues a backend operation.
\* Stated on two such calls made one after the other.
C22_SamePrecedence ==
    [][StoppedInvalidCall' =>
          /\ ret'.outcome = "error" /\ Kind(ret'.err) \in {"InvalidKey", "NotStarted"}
          /\ NoBackendIO
          /\ (StoppedInvalidCall => Kind(ret'.err) = Kind(ret.err))]_vars

====
